---- MODULE Spec2Model ----
(***************************************************************************)
(* Model of the PDF OCR processor: the text-presence analyzer              *)
(* (core/pdf_detector.py), the OCR invoker (core/ocr_processor.py), the    *)
(* path validators (utils/validators.py) and the orchestrator             *)
(* process_single_pdf (main.py).                                           *)
(*                                                                         *)
(* One behaviour is one call: either a run of process_single_pdf or a      *)
(* direct call of OCRProcessor.process_pdf.  The files, the document and   *)
(* the force flag are fixed by Init; what the libraries and the OCR engine *)
(* do (succeed, raise, write the output or not) is chosen at the step      *)
(* that calls them.                                                        *)
(***************************************************************************)
EXTENDS Integers, Sequences, FiniteSets, TLC

(* ---------------------------------------------------------------------- *)
(* Program constants                                                      *)
(* ---------------------------------------------------------------------- *)
min_text_threshold == 50

\* min_text_ratio = 0.1, kept as the exact fraction RatioNum / RatioDen
RatioNum == 1

RatioDen == 10

MaxFileSizeMB == 100

BytesPerMB == 1048576

\* Python's None, and the truth test `if x:` on an optional string
None == "<None>"

Truthy(x) == x # None /\ x # ""

(* ---------------------------------------------------------------------- *)
(* Bounds of the model                                                    *)
(* ---------------------------------------------------------------------- *)
\* longest document enumerated page by page
MaxPages == 2

\* most pages whose extraction fails inside the PyPDF2 loop of one analysis
MaxSkipped == 1

\* longest page text enumerated character by character
MaxTextLen == 4

(* ---------------------------------------------------------------------- *)
(* Inputs                                                                 *)
(* ---------------------------------------------------------------------- *)
\* number of characters of a page's text after whitespace normalisation;
\* a missing or zero-byte file holds no pages
PageChars == {0, 50, 51}

\* 3 pages of 0, 5 and 200 characters
ExampleDoc == <<0, 5, 200>>

\* 11 pages, a single one with text: pages_with_text / total_pages < 0.1
\* while total and average are both above the threshold
SparseDoc == <<600, 0, 0, 0, 0, 0, 0, 0, 0, 0, 0>>

Docs == UNION {[1..n -> PageChars] : n \in 0..MaxPages} \cup {ExampleDoc, SparseDoc}

Suffixes == {".pdf", ".PDF", ".txt"}

FileSizes == {0, MaxFileSizeMB * BytesPerMB, MaxFileSizeMB * BytesPerMB + 1}

\* the file at input_path: a missing file has no size.  readable: the
\* process may open it (os.stat does not need that); the one unreadable
\* file is an otherwise valid PDF
InputFiles ==
    {f \in [exists : BOOLEAN, suffix : Suffixes, size : FileSizes,
            readable : BOOLEAN] :
        /\ ~f.exists => f.size = 0
        /\ ~f.readable =>
              (f.exists /\ f.suffix = ".pdf"
                  /\ f.size = MaxFileSizeMB * BytesPerMB)}

\* the file at output_path.  parent: the state of its parent directory
\* (readonly: it exists and no file can be created in it).
\* When output_path resolves to input_path the two are the same file.
OutputPaths(f) ==
    {o \in [same_as_input : BOOLEAN, suffix : Suffixes,
            parent : {"exists", "creatable", "blocked", "readonly"},
            exists : BOOLEAN, writable : BOOLEAN,
            size : FileSizes, written_by : {"nobody"}] :
        /\ o.exists => o.parent = "exists"
        /\ ~o.same_as_input => o.suffix \in {".pdf", ".txt"}
        /\ o.parent = "readonly" =>
              (~o.exists /\ ~o.same_as_input /\ o.suffix = ".pdf")
        /\ ~o.exists => (o.writable /\ o.size = 0)
        /\ o.exists /\ ~o.same_as_input => o.size = MaxFileSizeMB * BytesPerMB
        /\ o.same_as_input =>
              /\ o.exists = f.exists
              /\ o.size = f.size
              /\ o.suffix = f.suffix
              /\ o.parent = "exists"}

\* the suffix compared as it is written
Lower_Identity(s) == s

\* str.lower() on a path suffix
Lower(s) == IF s = ".PDF" THEN ".pdf" ELSE s

(* ---------------------------------------------------------------------- *)
(* utils/validators.py                                                    *)
(* ---------------------------------------------------------------------- *)
validate_pdf_file(f) ==
    IF ~f.exists
    THEN [valid |-> FALSE, error |-> "El archivo no existe"]
    ELSE IF Lower(f.suffix) # ".pdf"
    THEN [valid |-> FALSE, error |-> "El archivo debe ser PDF"]
    ELSE IF f.size > MaxFileSizeMB * BytesPerMB
    THEN [valid |-> FALSE, error |-> "Archivo muy grande"]
    ELSE IF f.size = 0
    THEN [valid |-> FALSE, error |-> "El archivo PDF esta vacio"]
    ELSE [valid |-> TRUE, error |-> None]

validate_output_path(o) ==
    IF o.parent = "blocked"
    THEN [valid |-> FALSE, error |-> "No se puede crear directorio"]
    ELSE IF Lower(o.suffix) # ".pdf"
    THEN [valid |-> FALSE, error |-> "El archivo de salida debe tener extension .pdf"]
    ELSE IF o.exists /\ ~o.writable
    THEN [valid |-> FALSE, error |-> "Sin permisos de escritura"]
    ELSE [valid |-> TRUE, error |-> None]

\* parent_dir.mkdir(parents=True, exist_ok=True) of validate_output_path
MkdirParent(o) ==
    IF o.parent = "creatable" THEN [o EXCEPT !.parent = "exists"] ELSE o

(* ---------------------------------------------------------------------- *)
(* core/pdf_detector.py                                                   *)
(* ---------------------------------------------------------------------- *)
\* total_chars / total_pages as an exact fraction, 0 for a document
\* without pages
AveragePerPage(total, pages) ==
    IF pages > 0 THEN [num |-> total, den |-> pages] ELSE [num |-> 0, den |-> 1]

\* the dictionary analyze_pdf starts from
NewAnalysis ==
    [has_text |-> FALSE, is_searchable |-> FALSE, needs_ocr |-> TRUE,
     total_pages |-> 0, pages_with_text |-> 0, total_characters |-> 0,
     average_chars_per_page |-> AveragePerPage(0, 0),
     analysis_method |-> "", error |-> None]

\* the dictionary analyze_pdf returns from its except clause
AnalysisException(msg) ==
    [has_text |-> FALSE, is_searchable |-> FALSE, needs_ocr |-> TRUE,
     error |-> msg]

\* the page loop of both backends, from page i on: pages in skipped are
\* the ones whose extraction raised inside the loop's own try (PyPDF2 only)
(* ---------------------------------------------------------------------- *)
(* the body of the page loop: clean_text = ' '.join(text.split())         *)
(* ---------------------------------------------------------------------- *)
\* the characters of a page text: two letters and three kinds of whitespace
Chars == {"a", "b", " ", "\t", "\n"}

\* what str.split() without argument treats as a separator
Whitespace == {" ", "\t", "\n"}

\* a text is a sequence of characters
RECURSIVE TextsOfLen(_)
TextsOfLen(n) ==
    IF n = 0 THEN {<< >>}
    ELSE {Append(t, c) : t \in TextsOfLen(n - 1), c \in Chars}

\* the page texts a backend can extract
Texts == UNION {TextsOfLen(n) : n \in 0..MaxTextLen}

\* text.split(): the maximal runs of non-whitespace characters, in order;
\* `word` is the run being read, `words` the runs already finished
RECURSIVE SplitFrom(_, _, _, _)
SplitFrom(t, i, word, words) ==
    LET finished == IF word = << >> THEN words ELSE Append(words, word)
    IN  IF i > Len(t) THEN finished
        ELSE IF t[i] \in Whitespace
             THEN SplitFrom(t, i + 1, << >>, finished)
             ELSE SplitFrom(t, i + 1, Append(word, t[i]), words)

Split(t) == SplitFrom(t, 1, << >>, << >>)

\* sep.join(words)
RECURSIVE Join(_, _)
Join(sep, words) ==
    IF words = << >> THEN << >>
    ELSE IF Len(words) = 1 THEN words[1]
    ELSE words[1] \o sep \o Join(sep, Tail(words))

\* text.replace('  ', ' '): one pass replacing each pair of spaces
RECURSIVE Normalize_ReplacePairs(_)
Normalize_ReplacePairs(t) ==
    IF Len(t) < 2 THEN t
    ELSE IF t[1] = " " /\ t[2] = " "
         THEN <<" ">> \o Normalize_ReplacePairs(SubSeq(t, 3, Len(t)))
         ELSE <<t[1]>> \o Normalize_ReplacePairs(Tail(t))

\* ' '.join(text.split())
Normalize(t) == Join(<<" ">>, Split(t))

RECURSIVE PageLoop(_, _, _, _)
PageLoop(d, i, skipped, acc) ==
    IF i > Len(d) THEN acc
    ELSE IF i \in skipped THEN PageLoop(d, i + 1, skipped, acc)
    ELSE PageLoop(d, i + 1, skipped,
            [total_chars |-> acc.total_chars + d[i],
             pages_with_text |-> acc.pages_with_text +
                 (IF d[i] > min_text_threshold THEN 1 ELSE 0)])

LoopStart == [total_chars |-> 0, pages_with_text |-> 0]

PyMuPDFOutcomes == {"ok", "open_fails", "page_fails"}

\* outcome: what fitz does with the file.  open_fails: fitz.open raises;
\* page_fails: load_page / get_text raises on some page.
analyze_with_pymupdf(result, d, outcome) ==
    IF outcome = "open_fails"
    THEN [ok |-> FALSE, result |-> result]
    ELSE LET r1 == [result EXCEPT !.analysis_method = "PyMuPDF",
                                  !.total_pages = Len(d)]
             acc == PageLoop(d, 1, {}, LoopStart)
         IN  IF outcome = "page_fails"
             THEN [ok |-> FALSE, result |-> r1]
             ELSE [ok |-> TRUE,
                   result |-> [r1 EXCEPT
                       !.total_characters = acc.total_chars,
                       !.pages_with_text = acc.pages_with_text,
                       !.average_chars_per_page =
                           AveragePerPage(acc.total_chars, r1.total_pages)]]

PyPDF2Outcomes == {"ok", "open_fails", "pages_fails"}

\* analyze_with_pypdf2 leaving analysis_method as the primary attempt set it
analyze_with_pypdf2_KeepsMethod(result, d, outcome, skipped) ==
    IF outcome = "open_fails"
    THEN [ok |-> FALSE, result |-> result]
    ELSE LET r1 == [result EXCEPT !.total_pages = Len(d)]
             acc == PageLoop(d, 1, skipped, LoopStart)
         IN  IF outcome = "pages_fails"
             THEN [ok |-> FALSE, result |-> result]
             ELSE [ok |-> TRUE,
                   result |-> [r1 EXCEPT
                       !.total_characters = acc.total_chars,
                       !.pages_with_text = acc.pages_with_text,
                       !.average_chars_per_page =
                           AveragePerPage(acc.total_chars, r1.total_pages)]]

\* open_fails: open() or PdfReader raises; pages_fails: reader.pages raises
analyze_with_pypdf2(result, d, outcome, skipped) ==
    IF outcome = "open_fails"
    THEN [ok |-> FALSE, result |-> result]
    ELSE LET r0 == [result EXCEPT !.analysis_method = "PyPDF2"]
             r1 == [r0 EXCEPT !.total_pages = Len(d)]
             acc == PageLoop(d, 1, skipped, LoopStart)
         IN  IF outcome = "pages_fails"
             THEN [ok |-> FALSE, result |-> r0]
             ELSE [ok |-> TRUE,
                   result |-> [r1 EXCEPT
                       !.total_characters = acc.total_chars,
                       !.pages_with_text = acc.pages_with_text,
                       !.average_chars_per_page =
                           AveragePerPage(acc.total_chars, r1.total_pages)]]

\* has_sufficient_text without its third condition
has_sufficient_text_NoRatio(result) ==
    /\ result.total_characters > min_text_threshold
    /\ result.average_chars_per_page.num
          > min_text_threshold * result.average_chars_per_page.den

\* `a and b and c` of _determine_ocr_need: the ratio is only evaluated
\* when the two comparisons before it are true
has_sufficient_text(result) ==
    /\ result.total_characters > min_text_threshold
    /\ result.average_chars_per_page.num
          > min_text_threshold * result.average_chars_per_page.den
    /\ result.pages_with_text * RatioDen >= RatioNum * result.total_pages

\* the division evaluated before the two comparisons
DetermineRaises_NoShortCircuit(result) == result.total_pages = 0

\* pages_with_text / total_pages raises ZeroDivisionError
DetermineRaises(result) ==
    /\ result.total_characters > min_text_threshold
    /\ result.average_chars_per_page.num
          > min_text_threshold * result.average_chars_per_page.den
    /\ result.total_pages = 0

\* determine_ocr_need leaving needs_ocr as analyze_pdf initialised it
determine_ocr_need_KeepsNeedsOcr(result) ==
    [result EXCEPT !.has_text = has_sufficient_text(result),
                   !.is_searchable = has_sufficient_text(result)]

determine_ocr_need(result) ==
    [result EXCEPT !.has_text = has_sufficient_text(result),
                   !.is_searchable = has_sufficient_text(result),
                   !.needs_ocr = ~has_sufficient_text(result)]

(* ---------------------------------------------------------------------- *)
(* core/ocr_processor.py: dictionaries and what the libraries can do      *)
(* ---------------------------------------------------------------------- *)
\* pages_processed is an integer or the text "N/A (copia directa)"
PagesCount(n) == [na |-> FALSE, pages |-> n]

PagesNA == [na |-> TRUE, pages |-> 0]

\* the dictionary process_pdf starts from
NewResult ==
    [success |-> FALSE, processing_method |-> "",
     pages_processed |-> PagesCount(0),
     file_size_before |-> 0, file_size_after |-> 0, error |-> None]

\* the dictionary process_pdf returns from its except clause
ProcessException(msg) == [success |-> FALSE, error |-> msg]

OutputNotGenerated == "El archivo de salida no se genero correctamente"

\* what ocrmypdf.ocr does: returns after writing the output, returns without
\* an output file, raises ExitCodeNotOk, raises another Exception
EngineOutcomes == {"written", "no_output", "exit_code_not_ok", "exception"}

\* str(e) of the exception the engine raises
EngineMessage(outcome) ==
    IF outcome = "exit_code_not_ok" THEN "ExitCodeNotOk: ocrmypdf failed"
    ELSE IF outcome = "exception" THEN "ocrmypdf raised"
    ELSE None

EngineNotRun == [outcome |-> "not_run", error |-> None]

\* sizes of a file the engine writes
EngineSizes == FileSizes \ {0}

\* shutil.copy2 can complete: source and destination differ, the directory
\* is there and an existing destination can be overwritten
CanCopy(o) ==
    ~o.same_as_input /\ o.parent = "exists" /\ (o.exists => o.writable)

(* ---------------------------------------------------------------------- *)
(* State                                                                  *)
(* ---------------------------------------------------------------------- *)
\* utils/config.py: Config.OCRMYPDF_CONFIG, the fields the claims are about
OCRMYPDF_CONFIG == [language |-> "spa", deskew |-> TRUE, clean |-> TRUE]

\* the configurations a direct caller constructs an OCRProcessor with:
\* both image options on, or both off
Configs ==
    {c \in [language : {"spa"}, deskew : BOOLEAN, clean : BOOLEAN] :
        c.deskew = c.clean}

\* no ocr_config has been built in this call
NoOcrConfig == [language |-> None, deskew |-> FALSE, clean |-> FALSE]

\* _apply_ocr builds ocr_config: language is self.language, deskew and
\* clean are the literals False
OcrConfig(self_config) ==
    [language |-> self_config.language, deskew |-> FALSE, clean |-> FALSE]

VARIABLES
    input_file,     \* the file at input_path
    output,         \* the file at output_path
    force_ocr,      \* the force_ocr argument
    doc,            \* the pages of the document in input_file
    entry,          \* which function was called: "main" or "process_pdf"
    pc,             \* position in the call
    valid_input,    \* result of validate_pdf_file in process_single_pdf
    valid_output,   \* result of validate_output_path in process_single_pdf
    analysis,       \* the dictionary `result` of the current analyze_pdf
    an_caller,      \* who called analyze_pdf: "main" or "process_pdf"
    an_trace,       \* what the two backends did in the current analyze_pdf
    main_analysis,  \* `analysis` of process_single_pdf
    result,         \* the dictionary `result` of process_pdf
    success,        \* the local `success` of process_pdf
    engine,         \* what the OCR engine did in this call
    reported,       \* the error message process_single_pdf printed
    ret,            \* return value of process_single_pdf, once pc = "done"
    analyzer_calls, \* calls of analyze_pdf
    engine_calls,   \* calls of ocrmypdf.ocr
    copy_calls,     \* calls of shutil.copy2
    process_calls,  \* calls of process_pdf
    open_handles,   \* documents and files opened and not closed
    in_main,        \* the program was started from the command line: main()
    system_valid,   \* result of validate_system in main
    raised,         \* the exception that reached the try block of main
    exited,         \* the process has exited
    exit_code,      \* its exit code, once exited
    config,         \* self.config: what the OCRProcessor is constructed with
    ocr_config,     \* the dictionary `ocr_config` handed to ocrmypdf.ocr
    text,           \* `text` of the page loop: what the backend extracted
    clean_text,     \* `clean_text` of the page loop
    char_count,     \* `char_count` of the page loop
    norm_pc         \* position in the body of the page loop

vars == <<input_file, output, force_ocr, doc, entry, pc, valid_input,
          valid_output, analysis, an_caller, an_trace, main_analysis, result,
          success, engine, reported, ret, analyzer_calls, engine_calls,
          copy_calls, process_calls, open_handles, in_main, system_valid,
          raised, exited, exit_code, config, ocr_config, text, clean_text,
          char_count, norm_pc>>

\* the variables of one call
call == <<input_file, output, force_ocr, doc, entry, pc, valid_input,
          valid_output, analysis, an_caller, an_trace, main_analysis, result,
          success, engine, reported, ret, analyzer_calls, engine_calls,
          copy_calls, process_calls, open_handles, in_main, system_valid,
          raised, exited, exit_code, config, ocr_config>>

\* the variables of the body of the page loop
norm == <<text, clean_text, char_count, norm_pc>>

cli == <<in_main, system_valid, raised, exited, exit_code>>

inputs == <<input_file, force_ocr, doc>>

NotValidated == [run |-> FALSE, valid |-> FALSE, error |-> None]

Validated(v) == [run |-> TRUE, valid |-> v.valid, error |-> v.error]

NoTrace == [primary |-> "not_tried", secondary |-> "not_tried", skipped |-> {}]

NoAnalysis == [error |-> None, needs_ocr |-> TRUE, has_text |-> FALSE,
               analysis_method |-> "<no analysis>"]

\* nothing has been called yet
NotStarted ==
    /\ entry = "none"
    /\ pc = "start"
    /\ valid_input = NotValidated
    /\ valid_output = NotValidated
    /\ analysis = NoAnalysis
    /\ an_caller = "none"
    /\ an_trace = NoTrace
    /\ main_analysis = NoAnalysis
    /\ result = ProcessException(None)
    /\ success = FALSE
    /\ engine = EngineNotRun
    /\ reported = None
    /\ ret = FALSE
    /\ analyzer_calls = 0
    /\ engine_calls = 0
    /\ copy_calls = 0
    /\ process_calls = 0
    /\ open_handles = {}
    /\ in_main = FALSE
    /\ system_valid = NotValidated
    /\ raised = "none"
    /\ exited = FALSE
    /\ exit_code = 0
    /\ config = OCRMYPDF_CONFIG
    /\ ocr_config = NoOcrConfig

Init ==
    /\ input_file \in InputFiles
    /\ output \in OutputPaths(input_file)
    /\ force_ocr \in BOOLEAN
    /\ doc \in Docs
    /\ input_file.size = 0 => doc = << >>
    /\ NotStarted
    /\ text = << >>
    /\ clean_text = << >>
    /\ char_count = 0
    /\ norm_pc = "idle"

(* ---------------------------------------------------------------------- *)
(* main.py: process_single_pdf                                            *)
(* ---------------------------------------------------------------------- *)
\* the call of process_single_pdf(input_path, output_path, force_ocr)
CallProcessSinglePdf ==
    /\ pc = "start"
    /\ UNCHANGED process_calls
    /\ entry' = "main"
    /\ pc' = "main_validate_input"
    /\ UNCHANGED <<norm, cli, config, ocr_config, inputs, output, valid_input, valid_output, analysis,
                   an_caller, an_trace, main_analysis, result, success,
                   engine, reported, ret, analyzer_calls, engine_calls,
                   copy_calls, open_handles>>

\* where process_single_pdf goes after validate_pdf_file returned v
AfterInputValidation(v) == IF v.valid THEN "main_validate_output" ELSE "done"

MainValidateInput ==
    /\ pc = "main_validate_input"
    /\ ~exited
    /\ UNCHANGED process_calls
    /\ LET v == validate_pdf_file(input_file)
       IN  /\ valid_input' = Validated(v)
           /\ pc' = AfterInputValidation(v)
           /\ reported' = IF v.valid THEN reported ELSE v.error
           /\ ret' = FALSE
    /\ UNCHANGED <<norm, cli, config, ocr_config, inputs, output, entry, valid_output, analysis, an_caller,
                   an_trace, main_analysis, result, success, engine,
                   analyzer_calls, engine_calls, copy_calls, open_handles>>

\* AfterOutputValidation without the early return
AfterOutputValidation_Continues(v) == "main_analyze"

\* where process_single_pdf goes after validate_output_path returned v
AfterOutputValidation(v) == IF v.valid THEN "main_analyze" ELSE "done"

MainValidateOutput ==
    /\ pc = "main_validate_output"
    /\ ~exited
    /\ UNCHANGED process_calls
    /\ LET v == validate_output_path(output)
       IN  /\ valid_output' = Validated(v)
           /\ output' = MkdirParent(output)
           /\ pc' = AfterOutputValidation(v)
           /\ reported' = IF v.valid THEN reported ELSE v.error
           /\ ret' = FALSE
    /\ UNCHANGED <<norm, cli, config, ocr_config, inputs, entry, valid_input, analysis, an_caller, an_trace,
                   main_analysis, result, success, engine, analyzer_calls,
                   engine_calls, copy_calls, open_handles>>

\* detector.analyze_pdf(input_path) called by process_single_pdf
MainAnalyze ==
    /\ pc = "main_analyze"
    /\ ~exited
    /\ UNCHANGED process_calls
    /\ analysis' = NewAnalysis
    /\ an_caller' = "main"
    /\ an_trace' = NoTrace
    /\ analyzer_calls' = analyzer_calls + 1
    /\ pc' = "an_pymupdf"
    /\ UNCHANGED <<norm, cli, config, ocr_config, inputs, output, entry, valid_input, valid_output,
                   main_analysis, result, success, engine, reported, ret,
                   engine_calls, copy_calls, open_handles>>

\* where process_single_pdf goes with the analysis a it got
AfterMainAnalysis(a) == IF Truthy(a.error) THEN "done" ELSE "pp_stat"

\* `if analysis.get('error'): return False`, else on to process_pdf
MainAnalyzed ==
    /\ pc = "main_analyzed"
    /\ ~exited
    /\ main_analysis' = analysis
    /\ pc' = AfterMainAnalysis(analysis)
    /\ process_calls' = IF AfterMainAnalysis(analysis) = "pp_stat"
                        THEN process_calls + 1 ELSE process_calls
    /\ reported' = IF Truthy(analysis.error) THEN analysis.error ELSE reported
    /\ ret' = FALSE
    /\ config' = OCRMYPDF_CONFIG
    /\ UNCHANGED <<norm, cli, ocr_config, inputs, output, entry, valid_input,
                   valid_output, analysis,
                   an_caller, an_trace, result, success, engine,
                   analyzer_calls, engine_calls, copy_calls, open_handles>>

\* `if result['success']: ... return True else: ... return False`
MainReport ==
    /\ pc = "main_report"
    /\ ~exited
    /\ UNCHANGED process_calls
    /\ ret' = result.success
    /\ reported' = IF result.success THEN reported ELSE result.error
    /\ pc' = "done"
    /\ UNCHANGED <<norm, cli, config, ocr_config, inputs, output, entry, valid_input, valid_output, analysis,
                   an_caller, an_trace, main_analysis, result, success,
                   engine, analyzer_calls, engine_calls, copy_calls,
                   open_handles>>

(* ---------------------------------------------------------------------- *)
(* main.py: validate_system, main                                         *)
(* ---------------------------------------------------------------------- *)
\* python src/main.py input_file output_file [--forzar-ocr]: main() parses
\* its arguments and enters its try block
CallMain ==
    /\ pc = "start"
    /\ in_main' = TRUE
    /\ pc' = "validate_system"
    /\ UNCHANGED <<norm, config, ocr_config, inputs, output, entry, valid_input, valid_output, analysis,
                   an_caller, an_trace, main_analysis, result, success,
                   engine, reported, ret, analyzer_calls, engine_calls,
                   copy_calls, process_calls, open_handles, system_valid,
                   raised, exited, exit_code>>

\* what validate_system can find: each failure makes it return False;
\* "exception" is an Exception raised by one of its own statements
SystemOutcomes == {"ok", "tesseract", "language", "directories", "exception"}

\* the exit code without the sys.exit(1) of the failure branch
ExitCodeOf_NoExitOnFailure(sys_ok, succeeded, exc) ==
    IF exc # "none" THEN 1
    ELSE IF ~sys_ok THEN 1
    ELSE 0

\* the exit code main ends with: both except clauses and both failure
\* branches call sys.exit(1); falling off the end of main exits with 0
ExitCodeOf(sys_ok, succeeded, exc) ==
    IF exc # "none" THEN 1
    ELSE IF ~sys_ok THEN 1
    ELSE IF succeeded THEN 0
    ELSE 1

\* if not validate_system(): sys.exit(1); then process_single_pdf is called
ValidateSystem ==
    /\ pc = "validate_system"
    /\ ~exited
    /\ \E outcome \in SystemOutcomes :
          /\ system_valid' = [run |-> TRUE, valid |-> outcome = "ok",
                              error |-> IF outcome = "ok" THEN None
                                        ELSE outcome]
          /\ raised' = IF outcome = "exception" THEN "Exception" ELSE "none"
          /\ IF outcome = "ok"
             THEN /\ entry' = "main"
                  /\ pc' = "main_validate_input"
                  /\ UNCHANGED <<exited, exit_code>>
             ELSE /\ exited' = TRUE
                  /\ exit_code' = ExitCodeOf(FALSE, FALSE, raised')
                  /\ UNCHANGED <<entry, pc>>
    /\ UNCHANGED <<norm, config, ocr_config, inputs, output, valid_input, valid_output, analysis,
                   an_caller, an_trace, main_analysis, result, success,
                   engine, reported, ret, analyzer_calls, engine_calls,
                   copy_calls, process_calls, open_handles, in_main>>

\* process_single_pdf returned `success` to main: the final messages and
\* the exit.  An Exception or a KeyboardInterrupt raised by these
\* statements is caught by the except clauses of main
MainExit ==
    /\ pc = "done"
    /\ in_main
    /\ ~exited
    /\ \E exc \in {"none", "Exception", "KeyboardInterrupt"} :
          /\ raised' = exc
          /\ exit_code' = ExitCodeOf(system_valid.valid, ret, exc)
    /\ exited' = TRUE
    /\ UNCHANGED <<norm, config, ocr_config, inputs, output, entry, pc, valid_input, valid_output,
                   analysis, an_caller, an_trace, main_analysis, result,
                   success, engine, reported, ret, analyzer_calls,
                   engine_calls, copy_calls, process_calls, open_handles,
                   in_main, system_valid>>

\* the positions of a run started by main at which Ctrl-C can arrive
\* before process_single_pdf returns
Interruptible ==
    {"validate_system", "main_validate_input", "main_validate_output",
     "main_analyze", "an_pymupdf", "an_pypdf2", "an_determine",
     "main_analyzed", "pp_stat", "pp_decide", "pp_analyzed", "apply_ocr",
     "copy_existing", "pp_verify", "main_report"}

\* KeyboardInterrupt is not an Exception: no `except Exception` of
\* _apply_ocr, process_pdf, analyze_pdf or process_single_pdf catches it;
\* it reaches `except KeyboardInterrupt` of main, which calls sys.exit(1),
\* and the call stops where it is.  Arriving inside ocrmypdf.ocr it may
\* leave a partly written output file
Interrupt ==
    /\ in_main
    /\ ~exited
    /\ pc \in Interruptible
    /\ raised' = "KeyboardInterrupt"
    /\ exited' = TRUE
    /\ exit_code' = ExitCodeOf(system_valid.valid, FALSE, raised')
    /\ IF pc = "apply_ocr"
       THEN /\ engine_calls' = engine_calls + 1
            /\ ocr_config' = OcrConfig(config)
            /\ \E partial \in BOOLEAN :
               \E size \in EngineSizes :
                  /\ partial =>
                        (output.parent = "exists" /\ input_file.readable)
                  /\ ~partial => size = CHOOSE z \in EngineSizes : TRUE
                  /\ output' = IF partial
                               THEN [output EXCEPT !.exists = TRUE,
                                                   !.size = size,
                                                   !.written_by = "engine"]
                               ELSE output
       ELSE UNCHANGED <<engine_calls, output, ocr_config>>
    /\ UNCHANGED <<norm, config, inputs, entry, pc, valid_input, valid_output, analysis,
                   an_caller, an_trace, main_analysis, result, success,
                   engine, reported, ret, analyzer_calls, copy_calls,
                   process_calls, open_handles, in_main, system_valid>>

(* ---------------------------------------------------------------------- *)
(* core/pdf_detector.py: analyze_pdf                                      *)
(* ---------------------------------------------------------------------- *)
\* analyze_pdf returns to its caller
AnalyzerReturn == IF an_caller = "main" THEN "main_analyzed" ELSE "pp_analyzed"

\* where analyze_pdf goes after the primary backend returned ok
AfterPyMuPDF(ok) == IF ok THEN "an_determine" ELSE "an_pypdf2"

\* the fitz document stays open when a page raises: doc.close() is skipped
AnalyzeWithPyMuPDF ==
    /\ pc = "an_pymupdf"
    /\ ~exited
    /\ UNCHANGED process_calls
    /\ \E outcome \in PyMuPDFOutcomes :
          /\ outcome = "page_fails" => Len(doc) > 0
          /\ ~input_file.readable => outcome = "open_fails"
          /\ LET r == analyze_with_pymupdf(analysis, doc, outcome)
             IN  /\ analysis' = r.result
                 /\ pc' = AfterPyMuPDF(r.ok)
          /\ an_trace' = [an_trace EXCEPT !.primary = outcome]
          /\ open_handles' = IF outcome = "page_fails"
                             THEN open_handles \cup {"fitz"}
                             ELSE open_handles
    /\ UNCHANGED <<norm, cli, config, ocr_config, inputs, output, entry, valid_input, valid_output,
                   an_caller, main_analysis, result, success, engine,
                   reported, ret, analyzer_calls, engine_calls, copy_calls>>

BothFailed == "No se pudo analizar el PDF con ningun metodo"

\* AfterPyPDF2 returning without setting error
AfterPyPDF2_NoError(r) == r.result

\* the result of analyze_pdf when the fallback backend returned r
AfterPyPDF2(r) ==
    IF r.ok THEN r.result ELSE [r.result EXCEPT !.error = BothFailed]

AnalyzeWithPyPDF2 ==
    /\ pc = "an_pypdf2"
    /\ ~exited
    /\ UNCHANGED process_calls
    /\ \E outcome \in PyPDF2Outcomes :
       \E skipped \in SUBSET (1..Len(doc)) :
          /\ Cardinality(skipped) <= MaxSkipped
          /\ outcome # "ok" => skipped = {}
          /\ ~input_file.readable => outcome = "open_fails"
          /\ LET r == analyze_with_pypdf2(analysis, doc, outcome, skipped)
             IN  /\ analysis' = AfterPyPDF2(r)
                 /\ pc' = IF r.ok THEN "an_determine" ELSE AnalyzerReturn
          /\ an_trace' = [an_trace EXCEPT !.secondary = outcome,
                                          !.skipped = skipped]
    /\ UNCHANGED <<norm, cli, config, ocr_config, inputs, output, entry, valid_input, valid_output,
                   an_caller, main_analysis, result, success, engine,
                   reported, ret, analyzer_calls, engine_calls, copy_calls,
                   open_handles>>

\* _determine_ocr_need, and the except clause of analyze_pdf around it
DetermineOcrNeed ==
    /\ pc = "an_determine"
    /\ ~exited
    /\ UNCHANGED process_calls
    /\ analysis' = IF DetermineRaises(analysis)
                   THEN AnalysisException("division by zero")
                   ELSE determine_ocr_need(analysis)
    /\ pc' = AnalyzerReturn
    /\ UNCHANGED <<norm, cli, config, ocr_config, inputs, output, entry, valid_input, valid_output,
                   an_caller, an_trace, main_analysis, result, success,
                   engine, reported, ret, analyzer_calls, engine_calls,
                   copy_calls, open_handles>>

(* ---------------------------------------------------------------------- *)
(* core/ocr_processor.py: process_pdf                                     *)
(* ---------------------------------------------------------------------- *)
\* a direct call of process_pdf(input_path, output_path, force_ocr)
CallProcessPdf ==
    /\ pc = "start"
    /\ entry' = "process_pdf"
    /\ pc' = "pp_stat"
    /\ process_calls' = process_calls + 1
    /\ config' \in Configs
    /\ UNCHANGED <<norm, cli, ocr_config, inputs, output, valid_input, valid_output, analysis,
                   an_caller, an_trace, main_analysis, result, success,
                   engine, reported, ret, analyzer_calls, engine_calls,
                   copy_calls, open_handles>>

\* process_pdf returns to its caller
ProcessReturn == IF entry = "main" THEN "main_report" ELSE "done"

\* result = {...}; result['file_size_before'] = Path(input_path).stat().st_size
\* stat raises for a missing file and process_pdf returns from its except
PpStat ==
    /\ pc = "pp_stat"
    /\ ~exited
    /\ UNCHANGED process_calls
    /\ IF input_file.exists
       THEN /\ result' = [NewResult EXCEPT
                             !.file_size_before = input_file.size]
            /\ pc' = "pp_decide"
       ELSE /\ result' = ProcessException("No such file or directory")
            /\ pc' = ProcessReturn
    /\ success' = FALSE
    /\ UNCHANGED <<norm, cli, config, ocr_config, inputs, output, entry, valid_input, valid_output, analysis,
                   an_caller, an_trace, main_analysis, engine, reported, ret,
                   analyzer_calls, engine_calls, copy_calls, open_handles>>

\* PpDecide consulting the analyzer whatever force_ocr is
PpDecide_IgnoresForce ==
    /\ pc = "pp_decide"
    /\ ~exited
    /\ analysis' = NewAnalysis
    /\ an_caller' = "process_pdf"
    /\ an_trace' = NoTrace
    /\ analyzer_calls' = analyzer_calls + 1
    /\ pc' = "an_pymupdf"
    /\ UNCHANGED <<norm, cli, config, ocr_config, inputs, output, entry, valid_input, valid_output,
                   main_analysis, result, success, engine, reported, ret,
                   engine_calls, copy_calls, process_calls, open_handles>>

\* `if force_ocr:` the engine runs, else analyze_pdf is called first
PpDecide ==
    /\ pc = "pp_decide"
    /\ ~exited
    /\ UNCHANGED process_calls
    /\ IF force_ocr
       THEN /\ result' = [result EXCEPT !.processing_method = "OCR_FORCED"]
            /\ pc' = "apply_ocr"
            /\ UNCHANGED <<analysis, an_caller, an_trace, analyzer_calls>>
       ELSE /\ analysis' = NewAnalysis
            /\ an_caller' = "process_pdf"
            /\ an_trace' = NoTrace
            /\ analyzer_calls' = analyzer_calls + 1
            /\ pc' = "an_pymupdf"
            /\ UNCHANGED result
    /\ UNCHANGED <<norm, cli, config, ocr_config, inputs, output, entry, valid_input, valid_output,
                   main_analysis, success, engine, reported, ret,
                   engine_calls, copy_calls, open_handles>>

\* ChooseMethod copying when the analysis failed
ChooseMethod_CopyOnError(a) ==
    IF a.needs_ocr /\ ~Truthy(a.error) THEN "OCR_APPLIED" ELSE "COPY_EXISTING"

\* the action process_pdf takes for the analysis a
ChooseMethod(a) == IF a.needs_ocr THEN "OCR_APPLIED" ELSE "COPY_EXISTING"

\* `if analysis.get('needs_ocr', True):` OCR, else copy
PpAnalyzed ==
    /\ pc = "pp_analyzed"
    /\ ~exited
    /\ UNCHANGED process_calls
    /\ result' = [result EXCEPT !.processing_method = ChooseMethod(analysis)]
    /\ pc' = IF ChooseMethod(analysis) = "OCR_APPLIED"
             THEN "apply_ocr" ELSE "copy_existing"
    /\ UNCHANGED <<norm, cli, config, ocr_config, inputs, output, entry, valid_input, valid_output, analysis,
                   an_caller, an_trace, main_analysis, success, engine,
                   reported, ret, analyzer_calls, engine_calls, copy_calls,
                   open_handles>>

\* _apply_ocr: one call of ocrmypdf.ocr; both except clauses log and
\* return False.  A failing engine may leave a partial output file.
ApplyOcr ==
    /\ pc = "apply_ocr"
    /\ ~exited
    /\ UNCHANGED process_calls
    /\ \E outcome \in EngineOutcomes :
       \E wrote \in BOOLEAN :
       \E size \in EngineSizes :
          /\ wrote => (output.parent = "exists" /\ input_file.readable)
          /\ ~input_file.readable =>
                outcome \in {"exit_code_not_ok", "exception"}
          /\ outcome = "written" => wrote
          /\ outcome = "no_output" => ~wrote
          /\ ~wrote => size = CHOOSE z \in EngineSizes : TRUE
          /\ output' = IF wrote
                       THEN [output EXCEPT !.exists = TRUE, !.size = size,
                                           !.written_by = "engine"]
                       ELSE output
          /\ engine' = [outcome |-> outcome, error |-> EngineMessage(outcome)]
          /\ success' = (outcome \in {"written", "no_output"})
    /\ engine_calls' = engine_calls + 1
    /\ ocr_config' = OcrConfig(config)
    /\ pc' = "pp_verify"
    /\ UNCHANGED <<norm, cli, config, inputs, entry, valid_input, valid_output, analysis,
                   an_caller, an_trace, main_analysis, result, reported, ret,
                   analyzer_calls, copy_calls, open_handles>>

\* _copy_existing: shutil.copy2, then pages_processed = 'N/A (copia directa)'
CopyExisting ==
    /\ pc = "copy_existing"
    /\ ~exited
    /\ UNCHANGED process_calls
    /\ \E copied \in BOOLEAN :
          /\ copied => (CanCopy(output) /\ input_file.readable)
          /\ output' = IF copied
                       THEN [output EXCEPT !.exists = TRUE,
                                           !.size = input_file.size,
                                           !.written_by = "copy"]
                       ELSE output
          /\ result' = IF copied
                       THEN [result EXCEPT !.pages_processed = PagesNA]
                       ELSE result
          /\ success' = copied
    /\ copy_calls' = copy_calls + 1
    /\ pc' = "pp_verify"
    /\ UNCHANGED <<norm, cli, config, ocr_config, inputs, entry, valid_input, valid_output, analysis,
                   an_caller, an_trace, main_analysis, engine, reported, ret,
                   analyzer_calls, engine_calls, open_handles>>

\* verify_result without the stat of the output file
verify_result_NoSizeAfter(res, ok, out) ==
    IF ok /\ out.exists
    THEN [res EXCEPT !.success = TRUE]
    ELSE [res EXCEPT !.error = OutputNotGenerated]

\* verify_result trusting the action's return value alone
verify_result_IgnoresFile(res, ok, out) ==
    IF ok
    THEN [res EXCEPT !.success = TRUE, !.file_size_after = out.size]
    ELSE [res EXCEPT !.error = OutputNotGenerated]

\* the result process_pdf returns once its action returned ok and the
\* output file is out
verify_result(res, ok, out) ==
    IF ok /\ out.exists
    THEN [res EXCEPT !.success = TRUE, !.file_size_after = out.size]
    ELSE [res EXCEPT !.error = OutputNotGenerated]

\* `if success and Path(output_path).exists():` ... `return result`
PpVerify ==
    /\ pc = "pp_verify"
    /\ ~exited
    /\ UNCHANGED process_calls
    /\ result' = verify_result(result, success, output)
    /\ pc' = ProcessReturn
    /\ UNCHANGED <<norm, cli, config, ocr_config, inputs, output, entry, valid_input, valid_output, analysis,
                   an_caller, an_trace, main_analysis, success, engine,
                   reported, ret, analyzer_calls, engine_calls, copy_calls,
                   open_handles>>

(* ---------------------------------------------------------------------- *)
(* Specification                                                          *)
(* ---------------------------------------------------------------------- *)
Next ==
    \/ CallMain
    \/ ValidateSystem
    \/ MainExit
    \/ Interrupt
    \/ CallProcessSinglePdf
    \/ MainValidateInput
    \/ MainValidateOutput
    \/ MainAnalyze
    \/ MainAnalyzed
    \/ MainReport
    \/ AnalyzeWithPyMuPDF
    \/ AnalyzeWithPyPDF2
    \/ DetermineOcrNeed
    \/ CallProcessPdf
    \/ PpStat
    \/ PpDecide
    \/ PpAnalyzed
    \/ ApplyOcr
    \/ CopyExisting
    \/ PpVerify

Spec == Init /\ [][Next]_vars

(* ---------------------------------------------------------------------- *)
(* The body of the page loop on every page text                           *)
(* ---------------------------------------------------------------------- *)
\* a backend has extracted `text` from a page
NormInit ==
    /\ text \in Texts
    /\ clean_text = << >>
    /\ char_count = 0
    /\ norm_pc = "extracted"
    /\ input_file = [exists |-> TRUE, suffix |-> ".pdf",
                     size |-> MaxFileSizeMB * BytesPerMB, readable |-> TRUE]
    /\ output = [same_as_input |-> FALSE, suffix |-> ".pdf",
                 parent |-> "exists", exists |-> FALSE, writable |-> TRUE,
                 size |-> 0, written_by |-> "nobody"]
    /\ force_ocr = FALSE
    /\ doc = << >>
    /\ NotStarted

\* clean_text = ' '.join(text.split()); char_count = len(clean_text)
CleanText ==
    /\ norm_pc = "extracted"
    /\ clean_text' = Normalize(text)
    /\ char_count' = Len(clean_text')
    /\ norm_pc' = "cleaned"
    /\ UNCHANGED <<call, text>>

\* the same two statements applied to clean_text
CleanTextAgain ==
    /\ norm_pc = "cleaned"
    /\ clean_text' = Normalize(clean_text)
    /\ char_count' = Len(clean_text')
    /\ norm_pc' = "cleaned_again"
    /\ UNCHANGED <<call, text>>

NormNext ==
    \/ CleanText
    \/ CleanTextAgain

NormSpec == NormInit /\ [][NormNext]_vars

(* ---------------------------------------------------------------------- *)
(* Properties                                                             *)
(* ---------------------------------------------------------------------- *)
\* analyze_pdf has just returned `analysis` to its caller
AnalyzerReturned == pc \in {"main_analyzed", "pp_analyzed"}

\* one of the two backends analysed the document
BackendSucceeded == an_trace.primary = "ok" \/ an_trace.secondary = "ok"

\* process_pdf has just returned `result` to its caller
ProcessReturned ==
    pc = "main_report" \/ (pc = "done" /\ entry = "process_pdf")

\* C1: for a document of at least one page that a backend analysed,
\* needs_ocr is false (and has_text true) exactly when total_characters > 50,
\* total_characters > 50 * total_pages and
\* pages_with_text / total_pages >= 0.1; so total_characters <= 50 gives
\* needs_ocr = true.
C1_ThresholdRule ==
    /\ (AnalyzerReturned /\ BackendSucceeded /\ analysis.total_pages >= 1) =>
          /\ analysis.has_text = ~analysis.needs_ocr
          /\ analysis.needs_ocr =
                ~( /\ analysis.total_characters > 50
                   /\ analysis.total_characters > 50 * analysis.total_pages
                   /\ 10 * analysis.pages_with_text >= analysis.total_pages )
    /\ (AnalyzerReturned /\ BackendSucceeded
            /\ analysis.total_characters <= 50) => analysis.needs_ocr

\* a document whose total and average are above 50 and whose ratio of pages
\* with text is below 0.1 has been analysed: it needs OCR
C1_Witness ==
    /\ AnalyzerReturned /\ BackendSucceeded
    /\ analysis.total_pages >= 1
    /\ analysis.total_characters > 50 * analysis.total_pages
    /\ 10 * analysis.pages_with_text < analysis.total_pages
    /\ analysis.needs_ocr

\* C2: a call of process_pdf with force_ocr = true on an existing input
\* never copies and, once returned, has run the OCR engine with
\* processing_method OCR_FORCED, whatever the analyzer says of the document.
C2_ForceAlwaysOcr ==
    (force_ocr /\ input_file.exists) =>
        /\ copy_calls = 0
        /\ pc # "copy_existing"
        /\ ProcessReturned =>
              /\ result.processing_method = "OCR_FORCED"
              /\ engine_calls = 1

\* a forced call returned after the orchestrator's analysis found text
C2_Witness ==
    /\ ProcessReturned /\ force_ocr
    /\ entry = "main" /\ ~main_analysis.needs_ocr
    /\ result.processing_method = "OCR_FORCED"
    /\ engine_calls = 1

\* C3: a call of process_pdf with force_ocr = false on an existing input
\* consults the analyzer and takes exactly one action: the OCR engine
\* (OCR_APPLIED) when the analysis says needs_ocr, a failed analysis
\* included, and otherwise the copy (COPY_EXISTING) without the engine.
C3_AnalyzerDecides ==
    (ProcessReturned /\ ~force_ocr /\ input_file.exists) =>
        /\ an_caller = "process_pdf"
        /\ engine_calls + copy_calls = 1
        /\ analysis.needs_ocr =>
              (result.processing_method = "OCR_APPLIED" /\ engine_calls = 1)
        /\ ~analysis.needs_ocr =>
              (result.processing_method = "COPY_EXISTING" /\ copy_calls = 1)
        /\ Truthy(analysis.error) => engine_calls = 1

\* an unforced call returned after a failed analysis and ran the engine
C3_Witness ==
    /\ ProcessReturned /\ ~force_ocr
    /\ an_caller = "process_pdf" /\ Truthy(analysis.error)
    /\ result.processing_method = "OCR_APPLIED"
    /\ engine_calls = 1 /\ copy_calls = 0

\* the analysis of process_single_pdf found both backends failing
MainAnalysisFailed == main_analysis.error = BothFailed

\* C4: when both backends fail in a run of process_single_pdf the run does
\* not abort: it treats the document as needing OCR and goes on to invoke
\* the OCR engine.
C4_AnalysisFailureNotFatal ==
    (entry = "main" /\ pc = "done" /\ MainAnalysisFailed) =>
        /\ main_analysis.needs_ocr
        /\ process_calls = 1
        /\ engine_calls = 1

\* C5: a run of process_single_pdf whose output path resolves to the input
\* path is rejected at validation: it returns false and the analyzer, the
\* copy and the OCR engine are never invoked.
C5_SamePathRejected ==
    (entry = "main" /\ output.same_as_input) =>
        /\ analyzer_calls = 0
        /\ process_calls = 0
        /\ engine_calls = 0
        /\ copy_calls = 0
        /\ pc = "done" => ~ret

\* one of the two validations of process_single_pdf failed
ValidationFailed ==
    \/ valid_input.run /\ ~valid_input.valid
    \/ valid_output.run /\ ~valid_output.valid

\* C6: in a run of process_single_pdf any call of the analyzer or of
\* process_pdf comes after both validations succeeded; when a validation
\* fails the run returns false with that validation's message and calls
\* neither.
C6_ValidationFirst ==
    entry = "main" =>
        /\ (analyzer_calls > 0 \/ process_calls > 0
                \/ engine_calls > 0 \/ copy_calls > 0) =>
              /\ valid_input.run /\ valid_input.valid
              /\ valid_output.run /\ valid_output.valid
        /\ valid_output.run => (valid_input.run /\ valid_input.valid)
        /\ ValidationFailed =>
              /\ pc = "done" /\ ~ret
              /\ analyzer_calls = 0 /\ process_calls = 0
              /\ engine_calls = 0 /\ copy_calls = 0
              /\ reported = IF valid_input.valid THEN valid_output.error
                            ELSE valid_input.error

\* the output validation failed after the input validation passed, and the
\* run returned false
C6_Witness ==
    /\ entry = "main" /\ pc = "done" /\ ~ret
    /\ valid_input.valid
    /\ valid_output.run /\ ~valid_output.valid
    /\ analyzer_calls = 0 /\ process_calls = 0

\* the OCR engine raised in this call
EngineFailed == engine.outcome \in {"exit_code_not_ok", "exception"}

\* C7: when the OCR engine raises, process_pdf returns success = false, the
\* result's error is the engine's own message, and the engine was invoked
\* exactly once.
C7_EngineErrorSurfaced ==
    (ProcessReturned /\ EngineFailed) =>
        /\ ~result.success
        /\ result.error = engine.error
        /\ engine_calls = 1

\* C8: process_pdf reports success only if the output file exists after its
\* action; when the action reported no error and the output file is absent
\* the result has success = false and an error message.
C8_SuccessNeedsOutput ==
    /\ result.success => output.exists
    /\ (ProcessReturned /\ success /\ ~output.exists) =>
          (~result.success /\ Truthy(result.error))

\* the engine returned without raising and without an output file
C8_Witness ==
    /\ ProcessReturned
    /\ engine.outcome = "no_output" /\ success
    /\ ~output.exists
    /\ ~result.success /\ Truthy(result.error)

\* both backends failed in the current analyze_pdf
BothBackendsFailed ==
    /\ an_trace.primary \in {"open_fails", "page_fails"}
    /\ an_trace.secondary \in {"open_fails", "pages_fails"}

\* C9: when both backends fail analyze_pdf returns, without raising, a
\* result with error set, needs_ocr = true and has_text = false.
C9_BothFailGivesError ==
    BothBackendsFailed =>
        /\ pc # "an_determine"
        /\ Truthy(analysis.error)
        /\ analysis.needs_ocr
        /\ ~analysis.has_text

\* the primary failed on a page, the fallback failed too, and the caller
\* has the result
C9_Witness ==
    /\ AnalyzerReturned
    /\ an_trace.primary = "page_fails"
    /\ an_trace.secondary \in {"open_fails", "pages_fails"}
    /\ Truthy(analysis.error) /\ analysis.needs_ocr

\* sum of the character counts of the pages of d in the set ps
RECURSIVE SumChars(_, _)
SumChars(d, ps) ==
    IF ps = {} THEN 0
    ELSE LET i == CHOOSE j \in ps : TRUE
         IN  d[i] + SumChars(d, ps \ {i})

\* the pages the succeeding backend extracted
PagesRead ==
    IF an_trace.primary = "ok" THEN 1..Len(doc)
    ELSE (1..Len(doc)) \ an_trace.skipped

\* C10: the secondary backend is attempted if and only if the primary
\* failed, and a successful result is wholly the succeeding backend's:
\* analysis_method names it and total_pages, total_characters and
\* pages_with_text are what it computed, with nothing left of a primary
\* attempt that failed partway.
C10_FallbackOnlyOnFailure ==
    /\ an_trace.secondary # "not_tried" =>
          an_trace.primary \in {"open_fails", "page_fails"}
    /\ pc = "an_pypdf2" => an_trace.primary \in {"open_fails", "page_fails"}
    /\ (an_trace.primary \in {"open_fails", "page_fails"} /\ pc # "an_pypdf2")
          => an_trace.secondary # "not_tried"
    /\ (AnalyzerReturned /\ BackendSucceeded) =>
          /\ analysis.analysis_method =
                (IF an_trace.primary = "ok" THEN "PyMuPDF" ELSE "PyPDF2")
          /\ analysis.total_pages = Len(doc)
          /\ analysis.total_characters = SumChars(doc, PagesRead)
          /\ analysis.pages_with_text =
                Cardinality({i \in PagesRead : doc[i] > 50})

\* the primary failed on a page of a document and the fallback succeeded
C10_Witness ==
    /\ AnalyzerReturned
    /\ an_trace.primary = "page_fails" /\ an_trace.secondary = "ok"
    /\ analysis.analysis_method = "PyPDF2"
    /\ analysis.total_pages >= 1
    /\ analysis.total_characters > 0

\* the result carries the page counters (the except clause's does not)
HasCounts(a) == {"total_pages", "pages_with_text"} \subseteq DOMAIN a

\* C11: for a document without pages that a backend opens, analyze_pdf
\* returns a normal result: total_pages = 0, average_chars_per_page = 0,
\* needs_ocr = true by the threshold rule, and no error.
C11_ZeroPagesIsNormal ==
    (AnalyzerReturned /\ BackendSucceeded /\ Len(doc) = 0) =>
        /\ HasCounts(analysis)
        /\ analysis.total_pages = 0
        /\ analysis.average_chars_per_page.num = 0
        /\ analysis.needs_ocr /\ ~analysis.has_text
        /\ analysis.error = None

\* a zero-page document went through the primary backend and the rule
C11_Witness ==
    /\ AnalyzerReturned /\ an_trace.primary = "ok"
    /\ Len(doc) = 0
    /\ HasCounts(analysis) /\ analysis.total_pages = 0
    /\ analysis.needs_ocr /\ analysis.error = None

\* C12: every result analyze_pdf returns has needs_ocr = not has_text, and
\* every result with page counts has 0 <= pages_with_text <= total_pages.
C12_ResultInvariant ==
    AnalyzerReturned =>
        /\ analysis.needs_ocr = ~analysis.has_text
        /\ HasCounts(analysis) =>
              /\ 0 <= analysis.pages_with_text
              /\ analysis.pages_with_text <= analysis.total_pages

\* a result with text came back from the fallback backend
C12_Witness ==
    /\ AnalyzerReturned /\ an_trace.secondary = "ok"
    /\ analysis.has_text /\ ~analysis.needs_ocr
    /\ analysis.pages_with_text >= 1

\* C13: in a successful analysis total_characters is the sum of the
\* normalised character counts of all pages and pages_with_text the number
\* of pages with more than 50 characters; pages of 0, 5 and 200 characters
\* give 205, 1 and has_text = true.
C13_CountsAllPages ==
    (AnalyzerReturned /\ BackendSucceeded /\ HasCounts(analysis)) =>
        /\ analysis.total_characters = SumChars(doc, 1..Len(doc))
        /\ analysis.pages_with_text =
              Cardinality({i \in 1..Len(doc) : doc[i] > 50})
        /\ doc = <<0, 5, 200>> =>
              /\ analysis.total_characters = 205
              /\ analysis.pages_with_text = 1
              /\ analysis.has_text

\* C14: every document or file the analyzer opens is closed on every exit
\* path of the extraction attempt: none is open when the secondary
\* extraction, the copy or the OCR engine starts, nor when analyze_pdf
\* returns.
C14_HandlesClosed ==
    (pc \in {"an_pypdf2", "apply_ocr", "copy_existing"} \/ AnalyzerReturned)
        => open_handles = {}

\* C15: no failure is lost: analyze_pdf and process_pdf return instead of
\* raising, a process_pdf result with success = false carries an error
\* message, and a failed extraction step, a page of the fallback backend
\* included, shows in the returned result.
C15_NoFailureLost ==
    /\ (ProcessReturned /\ ~result.success) => Truthy(result.error)
    /\ (AnalyzerReturned /\ BothBackendsFailed) => Truthy(analysis.error)
    /\ (AnalyzerReturned /\ an_trace.skipped # {}) => Truthy(analysis.error)

\* the action of process_pdf was an OCR run
OcrRun ==
    /\ "processing_method" \in DOMAIN result
    /\ result.processing_method \in {"OCR_FORCED", "OCR_APPLIED"}

\* C18: in the result of process_pdf pages_processed is the page count the
\* engine reported when the action was an OCR run, at least 1 after a
\* successful OCR of a document with pages, and it is the N/A marker
\* exactly when the action was a copy.
C18_PagesProcessed ==
    ProcessReturned =>
        /\ (OcrRun /\ result.success /\ Len(doc) >= 1) =>
              (~result.pages_processed.na /\ result.pages_processed.pages >= 1)
        /\ OcrRun => ~result.pages_processed.na
        /\ ("processing_method" \in DOMAIN result
               /\ result.processing_method = "COPY_EXISTING" /\ result.success)
              => result.pages_processed.na

\* process_pdf returned success after the copy action
CopySucceeded ==
    /\ ProcessReturned /\ result.success
    /\ result.processing_method = "COPY_EXISTING"

\* C17: after a call of process_pdf that copied and succeeded the output
\* file has the size of the input file: file_size_after = file_size_before.
C17_CopyKeepsSize ==
    CopySucceeded =>
        /\ result.file_size_after = result.file_size_before
        /\ result.file_size_before = input_file.size
        /\ output.size = input_file.size

\* a copy of a non-empty file succeeded
C17_Witness ==
    /\ CopySucceeded /\ copy_calls = 1
    /\ input_file.size > 0
    /\ result.file_size_after = input_file.size

\* C19: validate_pdf_file returns (false, message) for a missing path, with
\* "no existe" in the message, for a suffix other than .pdf in any case,
\* for a file above 100 MB and for a zero-byte file, and (true, none) for
\* an existing non-empty .pdf file of at most 100 MB.
C19_ValidatePdfFile ==
    valid_input.run =>
        /\ ~input_file.exists =>
              (~valid_input.valid /\ valid_input.error = "El archivo no existe")
        /\ input_file.suffix \notin {".pdf", ".PDF"} => ~valid_input.valid
        /\ input_file.size > 100 * 1024 * 1024 => ~valid_input.valid
        /\ input_file.size = 0 => ~valid_input.valid
        /\ ~valid_input.valid => Truthy(valid_input.error)
        /\ ( /\ input_file.exists
             /\ input_file.suffix \in {".pdf", ".PDF"}
             /\ input_file.size > 0
             /\ input_file.size <= 100 * 1024 * 1024 )
              => (valid_input.valid /\ valid_input.error = None)

\* a file named .PDF of exactly 100 MB was accepted
C19_Witness ==
    /\ valid_input.run /\ valid_input.valid
    /\ input_file.suffix = ".PDF"
    /\ input_file.size = 100 * 1024 * 1024

\* C20: permissions are validated before processing: a run of
\* process_single_pdf whose input file is not readable or whose output
\* directory is not writable is rejected by validation, with a validation
\* message, before the analyzer or process_pdf is invoked.
C20_PermissionsValidated ==
    (entry = "main" /\ (~input_file.readable \/ output.parent = "readonly")) =>
        /\ analyzer_calls = 0
        /\ process_calls = 0
        /\ pc = "done" =>
              /\ ~ret
              /\ ValidationFailed
              /\ reported \in {valid_input.error, valid_output.error}

\* main exited after process_single_pdf returned True and nothing raised
RunSucceeded ==
    /\ system_valid.valid
    /\ pc = "done"
    /\ ret
    /\ raised = "none"

\* C16: a process started by main exits with code 0 or 1; with code 0
\* exactly when validate_system passed, process_single_pdf returned True
\* and no exception reached main; so with code 1 after a system-validation
\* failure, a file-validation failure, a processing failure, an unexpected
\* Exception or a KeyboardInterrupt.  An interrupt arriving while the OCR
\* engine runs ends with code 1 and no success recorded, whatever the
\* engine has already written to the output file.
C16_ExitCode ==
    exited =>
        /\ exit_code \in {0, 1}
        /\ exit_code = 0 <=> RunSucceeded
        /\ ~system_valid.valid => exit_code = 1
        /\ (pc = "done" /\ (ValidationFailed \/ ~ret)) => exit_code = 1
        /\ raised # "none" => exit_code = 1
        /\ (raised = "KeyboardInterrupt" /\ pc = "apply_ocr") =>
              /\ exit_code = 1
              /\ ~ret
              /\ ~result.success

\* Ctrl-C arrived while ocrmypdf.ocr was running and had written part of
\* the output file: the process exited with code 1
C16_Witness ==
    /\ exited
    /\ pc = "apply_ocr"
    /\ raised = "KeyboardInterrupt"
    /\ engine_calls = 1
    /\ output.exists /\ output.size > 0 /\ output.written_by = "engine"
    /\ exit_code = 1

\* C21: the deskew and clean options handed to the OCR engine are those of
\* the configuration the OCRProcessor was constructed with
\* (Config.OCRMYPDF_CONFIG in a run of main or process_single_pdf), in
\* every invocation of the engine.
C21_FlagsFromConfig ==
    engine_calls > 0 =>
        /\ ocr_config.deskew = config.deskew
        /\ ocr_config.clean = config.clean

\* clean_text is made of words separated by single spaces: no other
\* whitespace, no space at either end, no two spaces in a row
Collapsed(t) ==
    /\ \A i \in 1..Len(t) : t[i] \in Whitespace => t[i] = " "
    /\ Len(t) > 0 => (t[1] # " " /\ t[Len(t)] # " ")
    /\ \A i \in 1..(Len(t) - 1) : ~(t[i] = " " /\ t[i + 1] = " ")

\* C22: whitespace normalization collapses every run of whitespace to one
\* space and is idempotent: normalizing clean_text again gives clean_text,
\* so the character count of the page does not change.
C22_NormalizeIdempotent ==
    /\ Normalize(Normalize(text)) = Normalize(text)
    /\ norm_pc \in {"cleaned", "cleaned_again"} =>
          /\ clean_text = Normalize(text)
          /\ char_count = Len(Normalize(text))
          /\ Collapsed(clean_text)
          /\ Normalize(clean_text) = clean_text

\* a text with a run of two whitespace characters between two letters was
\* normalized twice: three characters are counted
C22_Witness ==
    /\ norm_pc = "cleaned_again"
    /\ text = <<"a", "\t", "\n", "b">>
    /\ clean_text = <<"a", " ", "b">>
    /\ char_count = 3

\* C23: whenever process_pdf reports success, the output file was written
\* by this call's own action, the OCR engine or the copy: a file that was
\* at output_path before the call never stands for the action's output,
\* and an action that reported failure never ends in success.
C23_OutputIsOwn ==
    /\ (ProcessReturned /\ result.success) =>
          /\ output.exists
          /\ output.written_by = (IF engine_calls > 0 THEN "engine" ELSE "copy")
    /\ (ProcessReturned /\ (engine_calls > 0 \/ copy_calls > 0) /\ ~success) =>
          ~result.success

\* C24: in a run of process_single_pdf without force_ocr the analyzer is
\* executed twice, by process_single_pdf and by process_pdf, and the
\* action process_pdf takes is the one process_single_pdf announced from
\* its own analysis: the copy when that gave needs_ocr = false, the OCR
\* engine when it gave needs_ocr = true, whatever the second analysis did.
C24_ActionAsAnnounced ==
    (entry = "main" /\ ~force_ocr) =>
        /\ pc \in {"apply_ocr", "copy_existing"} => analyzer_calls = 2
        /\ pc = "apply_ocr" => main_analysis.needs_ocr
        /\ pc = "copy_existing" => ~main_analysis.needs_ocr

====
